---- MODULE Spec2Model ----
(***************************************************************************)
(* Model of the authoritative game server of mcx.js: the players and       *)
(* bullets stores, the connection / input / disconnect handlers, the       *)
(* 60 Hz game loop and the 20 Hz snapshot broadcast.                       *)
(*                                                                         *)
(* Units: positions in pixels, times in milliseconds, velocities in        *)
(* pixels per second.  Angles are measured in quarter turns (multiples of  *)
(* pi/2) so that Math.cos / Math.sin are exactly -1, 0 or 1.  Every        *)
(* handler runs to completion (Node's single thread), so each handler is   *)
(* one action.                                                             *)
(***************************************************************************)
EXTENDS Integers, Sequences, FiniteSets, TLC

VARIABLES
    players,       \* socketId -> player record                    (mcx.js:34)
    bullets,       \* bulletId -> bullet record                    (mcx.js:35)
    nextBulletId,  \*                                              (mcx.js:37)
    lastTick,      \*                                              (mcx.js:110)
    now,           \* the value Date.now() returns
    connected,     \* number of sockets socket.io has opened so far
    crashed,       \* a handler threw an uncaught exception
    env,           \* the bounded environment of this run (see Envs)
    tickHits,      \* hits applied by the game-loop pass that just ran
    tickRespawns,  \* sockets respawned by the game-loop pass that just ran
    hitsTaken,     \* socketId -> hits received since the player last (re)spawned
    snapshot,      \* the snapshot emitted by the broadcast pass that just ran, or NoSnapshot
    tickGone,      \* bullets the game-loop pass that just ran removed for age or bounds
    mono           \* the time that has really passed: t, and its value at each
                   \* player's last accepted shot and last death

vars == <<players, bullets, nextBulletId, lastTick, now, connected, crashed,
          env, tickHits, tickRespawns, hitsTaken, snapshot, tickGone, mono>>

----------------------------------------------------------------------------
(* Program constants *)

TICK_RATE == 60
BROADCAST_RATE == 20
WORLD_WIDTH == 1200
WORLD_HEIGHT == 800
PLAYER_RADIUS == 16
PLAYER_SPEED == 220
PLAYER_MAX_HEALTH == 100
RESPAWN_TIME == 2000
BULLET_SPEED == 600
BULLET_RADIUS == 4
BULLET_LIFETIME == 2000
SHOOT_COOLDOWN == 200
SPAWN_INSET == 100
MUZZLE_CLEARANCE == 2
DT_CAP == 100
BOUNDS_MARGIN == 50
HIT_DAMAGE == 25
\* 220 / sqrt(2), the per-axis speed of a normalised diagonal move
PLAYER_SPEED_DIAG == 156

----------------------------------------------------------------------------
(* Bounds of the model *)

NumSessions == 3
MaxBulletId == 5
\* the value of Date.now() when the module is loaded
StartTime == 10000
SocketIds == 1..NumSessions

----------------------------------------------------------------------------
(* JavaScript values carried by an input message *)

Undef == [t |-> "undefined", v |-> 0]
JTrue == [t |-> "boolean", v |-> 1]
JFalse == [t |-> "boolean", v |-> 0]
JNum(n) == [t |-> "number", v |-> n]
\* a string, abstracted to its length
JStr(n) == [t |-> "string", v |-> n]

\* !!v and if (v)
Truthy(j) ==
    CASE j.t = "boolean" -> j.v = 1
      [] j.t = "number" -> j.v # 0
      [] j.t = "string" -> j.v # 0
      [] OTHER -> FALSE

NoFields == [up |-> Undef, down |-> Undef, left |-> Undef, right |-> Undef,
             mouseAngle |-> Undef, shoot |-> Undef]

Obj(name, f) == [name |-> name, kind |-> "object"] @@ f
Prim(name, kind) == [name |-> name, kind |-> kind] @@ NoFields

\* the payloads a client may send with an 'input' event
Payloads ==
    { Prim("null", "null"),
      Prim("undefined", "undefined"),
      Prim("number", "number"),
      Obj("empty", NoFields),
      Obj("left", [NoFields EXCEPT !.left = JTrue]),
      Obj("up", [NoFields EXCEPT !.up = JTrue]),
      Obj("leftString", [NoFields EXCEPT !.left = JStr(3)]),
      Obj("aimLeft", [NoFields EXCEPT !.mouseAngle = JNum(2)]),
      Obj("aimZero", [NoFields EXCEPT !.mouseAngle = JNum(0)]),
      Obj("aimString", [NoFields EXCEPT !.mouseAngle = JStr(3)]),
      Obj("shoot", [NoFields EXCEPT !.shoot = JTrue]),
      Obj("shootNumber", [NoFields EXCEPT !.shoot = JNum(1)]),
      Obj("aimShoot", [NoFields EXCEPT !.mouseAngle = JNum(1), !.shoot = JTrue]),
      Obj("shootFalse", [NoFields EXCEPT !.shoot = JFalse, !.left = JTrue]) }

\* reading a property of null or undefined throws a TypeError
Throws(input) == input.kind \in {"null", "undefined"}

----------------------------------------------------------------------------
(* Bounded environments.  A run of the server is checked against one of    *)
(* them; each fixes how many sockets connect, the values Math.random()     *)
(* yields for a spawn position, the instants at which handlers read        *)
(* Date.now() (offsets from StartTime), the messages clients send and      *)
(* whether clients disconnect, whether the broadcast timer is followed;     *)
(* bullets caps the bullet ids handed out.                                 *)

\* the x a socket is given on connection: a shooter at 100, a target at 182
\* that a bullet of the shooter reaches in one full pass, and bystanders at
\* x3 whose own bullets start on the target.  At 164 a bystander overlaps
\* the shooter's bullet when it reaches the target, at 150 it does not.
SpreadX(x3) == [k \in SocketIds |-> IF k = 1 THEN {100} ELSE IF k = 2 THEN {182} ELSE {x3}]
SameX(x) == [k \in SocketIds |-> {x}]

\* three clients that fight: hits, kills, bullets that meet a dead player
CombatEnv ==
    [name |-> "combat", sockets |-> 3,
     spawnX |-> SpreadX(150), respawnX |-> {100, 182}, spawnY |-> {100},
     clock |-> {0, 200, 400}, bullets |-> MaxBulletId,
     payloads |-> {"shoot"},
     disconnects |-> FALSE, broadcasts |-> FALSE]

\* three clients that fight and wait: respawns, expiry of bullets
RespawnEnv ==
    [name |-> "respawn", sockets |-> 3,
     spawnX |-> SpreadX(164), respawnX |-> {100, 182}, spawnY |-> {100},
     clock |-> {0, 200, 2200}, bullets |-> MaxBulletId,
     payloads |-> {"shoot"},
     disconnects |-> FALSE, broadcasts |-> FALSE]

\* one client that walks
MoveEnv ==
    [name |-> "move", sockets |-> 1,
     spawnX |-> SameX(100), respawnX |-> {100}, spawnY |-> {100},
     clock |-> {0, 200, 400, 600, 800}, bullets |-> MaxBulletId,
     payloads |-> {"null", "undefined", "number", "empty", "left", "up",
                   "leftString", "shootFalse"},
     disconnects |-> FALSE, broadcasts |-> TRUE]

\* one client that aims and shoots
AimEnv ==
    [name |-> "aim", sockets |-> 1,
     spawnX |-> SameX(100), respawnX |-> {100}, spawnY |-> {100},
     clock |-> {0, 200, 400, 600}, bullets |-> MaxBulletId,
     payloads |-> {"aimLeft", "aimZero", "aimString", "shoot", "shootNumber"},
     disconnects |-> FALSE, broadcasts |-> TRUE]

\* one client that keeps the trigger pressed
RapidEnv ==
    [name |-> "rapid", sockets |-> 1,
     spawnX |-> SameX(100), respawnX |-> {100}, spawnY |-> {100},
     clock |-> {0, 100, 200, 300}, bullets |-> 2,
     payloads |-> {"shoot", "aimShoot"},
     disconnects |-> FALSE, broadcasts |-> FALSE]

\* clients that come and go
ChurnEnv ==
    [name |-> "churn", sockets |-> NumSessions,
     spawnX |-> SpreadX(164), respawnX |-> {100, 182}, spawnY |-> {100},
     clock |-> {0, 200}, bullets |-> 2,
     payloads |-> {"shoot"},
     disconnects |-> TRUE, broadcasts |-> TRUE]

\* three clients, just enough bullets to kill one of them, and the time for
\* it to come back
LiveEnv ==
    [name |-> "live", sockets |-> 3,
     spawnX |-> SpreadX(164), respawnX |-> {100}, spawnY |-> {100},
     clock |-> {0, 200, 2200}, bullets |-> 4,
     payloads |-> {"shoot"},
     disconnects |-> FALSE, broadcasts |-> FALSE]

\* one client that shoots on a host whose clock gets set
SkewEnv ==
    [name |-> "skew", sockets |-> 1,
     spawnX |-> SameX(100), respawnX |-> {100}, spawnY |-> {100},
     clock |-> {0, 200, 400}, bullets |-> 3,
     payloads |-> {"shoot"},
     disconnects |-> FALSE, broadcasts |-> FALSE]

Envs == {CombatEnv, RespawnEnv, MoveEnv, AimEnv, RapidEnv, ChurnEnv}

\* the last instant of a run
Horizon(e) == CHOOSE m \in e.clock : \A o \in e.clock : o <= m

ClockReadings == {StartTime + o : o \in UNION {e.clock : e \in Envs}}

----------------------------------------------------------------------------
(* Arithmetic helpers *)

Min(a, b) == IF a < b THEN a ELSE b
Max(a, b) == IF a > b THEN a ELSE b
MinOf(S) == CHOOSE m \in S : \A n \in S : m <= n

\* Math.cos / Math.sin of an angle given in quarter turns
Cos(a) == CASE a % 4 = 0 -> 1 [] a % 4 = 2 -> -1 [] OTHER -> 0
Sin(a) == CASE a % 4 = 1 -> 1 [] a % 4 = 3 -> -1 [] OTHER -> 0

\* v * dt with v in px/s and dt in ms, truncated to whole pixels
Travel(v, dt) == IF v >= 0 THEN (v * dt) \div 1000 ELSE -(((-v) * dt) \div 1000)

Put(f, k, v) == [x \in DOMAIN f \cup {k} |-> IF x = k THEN v ELSE f[x]]
Del(f, k) == [x \in DOMAIN f \ {k} |-> f[x]]

NoSnapshot == [time |-> 0, players |-> <<>>, bullets |-> <<>>]

----------------------------------------------------------------------------
(* Initial state: the module has been loaded and the server listens *)

Init ==
    /\ players = <<>>
    /\ bullets = <<>>
    /\ nextBulletId = 1
    /\ lastTick = StartTime
    /\ now = StartTime
    /\ connected = 0
    /\ crashed = FALSE
    /\ env \in Envs
    /\ tickHits = {}
    /\ tickRespawns = {}
    /\ hitsTaken = <<>>
    /\ snapshot = NoSnapshot
    /\ tickGone = {}
    /\ mono = [t |-> StartTime, shot |-> <<>>, died |-> <<>>]

----------------------------------------------------------------------------
(* io.on('connection') *)

NewPlayer(startX, startY) ==
    [x |-> startX, y |-> startY, angle |-> 0,
     input |-> [up |-> FALSE, down |-> FALSE, left |-> FALSE, right |-> FALSE,
                mouseAngle |-> 0],
     health |-> PLAYER_MAX_HEALTH, alive |-> TRUE, lastShot |-> 0, respawnAt |-> 0]

Connect(startX, startY) ==
    /\ ~crashed
    /\ connected < env.sockets
    /\ connected' = connected + 1
    /\ players' = Put(players, connected + 1, NewPlayer(startX, startY))
    /\ hitsTaken' = Put(hitsTaken, connected + 1, 0)
    /\ mono' = [mono EXCEPT !.shot = Put(mono.shot, connected + 1, 0),
                            !.died = Put(mono.died, connected + 1, 0)]
    /\ tickHits' = {}
    /\ tickRespawns' = {}
    /\ tickGone' = {}
    /\ snapshot' = NoSnapshot
    /\ UNCHANGED <<bullets, nextBulletId, lastTick, now, crashed, env>>

----------------------------------------------------------------------------
(* socket.on('disconnect') *)

\* the handler also deleting the bullets the leaving player owns
Disconnect_purge(s) ==
    /\ ~crashed
    /\ players' = Del(players, s)
    /\ bullets' = [id \in {i \in DOMAIN bullets : bullets[i].ownerId # s} |-> bullets[id]]
    /\ hitsTaken' = Del(hitsTaken, s)
    /\ mono' = [mono EXCEPT !.shot = Del(mono.shot, s), !.died = Del(mono.died, s)]
    /\ tickHits' = {}
    /\ tickRespawns' = {}
    /\ tickGone' = {}
    /\ snapshot' = NoSnapshot
    /\ UNCHANGED <<nextBulletId, lastTick, now, connected, crashed, env>>

Disconnect(s) ==
    /\ ~crashed
    /\ players' = Del(players, s)
    /\ hitsTaken' = Del(hitsTaken, s)
    /\ mono' = [mono EXCEPT !.shot = Del(mono.shot, s), !.died = Del(mono.died, s)]
    /\ tickHits' = {}
    /\ tickRespawns' = {}
    /\ tickGone' = {}
    /\ snapshot' = NoSnapshot
    /\ UNCHANGED <<bullets, nextBulletId, lastTick, now, connected, crashed, env>>

----------------------------------------------------------------------------
(* socket.on('input') *)

\* lines 75-79: the staged input after the message
Stage(p, input) ==
    [up |-> Truthy(input.up),
     down |-> Truthy(input.down),
     left |-> Truthy(input.left),
     right |-> Truthy(input.right),
     mouseAngle |-> IF input.mouseAngle.t = "number" THEN input.mouseAngle.v
                    ELSE p.input.mouseAngle]

\* line 80
ShootRequested(input) == Truthy(input.shoot)

\* the cooldown test written with > instead of >=
CanShoot_strict(p, t) == t - p.lastShot > SHOOT_COOLDOWN /\ p.alive

\* the cooldown test without "&& p.alive"
CanShoot_dead(p, t) == t - p.lastShot >= SHOOT_COOLDOWN

\* line 83
CanShoot(p, t) == t - p.lastShot >= SHOOT_COOLDOWN /\ p.alive

\* lines 85-99
NewBullet(p, s, t) ==
    LET angle == p.input.mouseAngle IN
    [x |-> p.x + Cos(angle) * (PLAYER_RADIUS + BULLET_RADIUS + MUZZLE_CLEARANCE),
     y |-> p.y + Sin(angle) * (PLAYER_RADIUS + BULLET_RADIUS + MUZZLE_CLEARANCE),
     vx |-> Cos(angle) * BULLET_SPEED,
     vy |-> Sin(angle) * BULLET_SPEED,
     ownerId |-> s,
     born |-> t]

Input(s, input) ==
    /\ ~crashed
    /\ tickHits' = {}
    /\ tickRespawns' = {}
    /\ tickGone' = {}
    /\ snapshot' = NoSnapshot
    /\ UNCHANGED <<lastTick, now, connected, hitsTaken, env>>
    /\ IF s \notin DOMAIN players
       THEN UNCHANGED <<players, bullets, nextBulletId, crashed, mono>>
       ELSE IF Throws(input)
       THEN crashed' = TRUE /\ UNCHANGED <<players, bullets, nextBulletId, mono>>
       ELSE LET p1 == [players[s] EXCEPT !.input = Stage(players[s], input)] IN
            /\ crashed' = FALSE
            /\ IF ShootRequested(input) /\ CanShoot(p1, now)
               THEN /\ nextBulletId <= env.bullets
                    /\ players' = [players EXCEPT ![s] = [p1 EXCEPT !.lastShot = now]]
                    /\ bullets' = Put(bullets, nextBulletId, NewBullet(p1, s, now))
                    /\ nextBulletId' = nextBulletId + 1
                    /\ mono' = [mono EXCEPT !.shot[s] = mono.t]
               ELSE /\ players' = [players EXCEPT ![s] = p1]
                    /\ UNCHANGED <<bullets, nextBulletId, mono>>

----------------------------------------------------------------------------
(* Date.now() moves on between two handler runs *)

Advance(t) ==
    /\ ~crashed
    /\ now < t
    /\ t - StartTime \in env.clock
    /\ mono.t + (t - now) <= StartTime + Horizon(env)
    /\ now' = t
    /\ mono' = [mono EXCEPT !.t = mono.t + (t - now)]
    /\ UNCHANGED <<players, bullets, nextBulletId, lastTick, connected, crashed,
                   env, tickHits, tickRespawns, hitsTaken, snapshot, tickGone>>

\* the system clock is set, backwards or forwards, between two handler
\* runs: Date.now() reads the wall clock, and no time passes
SetClock(t) ==
    /\ ~crashed
    /\ t # now
    /\ t - StartTime \in env.clock
    /\ now' = t
    /\ UNCHANGED <<players, bullets, nextBulletId, lastTick, connected, crashed,
                   env, tickHits, tickRespawns, hitsTaken, snapshot, tickGone, mono>>

----------------------------------------------------------------------------
(* The game loop: setInterval(..., 1000 / TICK_RATE) *)

\* line 113, in milliseconds
Elapsed(t, prev) == Min(DT_CAP, t - prev)

\* the respawn test without the comparison with the deadline
RespawnDue_early(p, t) == p.respawnAt # 0

\* line 120
RespawnDue(p, t) == p.respawnAt # 0 /\ t >= p.respawnAt

\* the respawn that forgets line 125
Respawn_keepDeadline(p, pos) ==
    [p EXCEPT !.alive = TRUE, !.health = PLAYER_MAX_HEALTH,
              !.x = pos[1], !.y = pos[2]]

\* lines 121-125
Respawn(p, pos) ==
    [p EXCEPT !.alive = TRUE, !.health = PLAYER_MAX_HEALTH,
              !.x = pos[1], !.y = pos[2], !.respawnAt = 0]

\* lines 131-135: one axis of the direction vector
Axis(neg, pos) == (IF pos THEN 1 ELSE 0) - (IF neg THEN 1 ELSE 0)

\* lines 136-138: (d / len) * PLAYER_SPEED with len = hypot(dx, dy) || 1
Velocity(d, other) ==
    IF other = 0 THEN d * PLAYER_SPEED ELSE d * PLAYER_SPEED_DIAG

\* the clamp with its lower limit forgotten
Clamp_noFloor(lo, hi, v) == Min(hi, v)

\* lines 142-143
Clamp(lo, hi, v) == Max(lo, Min(hi, v))

\* line 144
Facing(p) == IF p.input.mouseAngle # 0 THEN p.input.mouseAngle ELSE p.angle

\* lines 131-144.  vx and vy are written before they are read and are read
\* nowhere else, so they are locals of the pass.
Move(p, dt) ==
    LET dx == Axis(p.input.left, p.input.right)
        dy == Axis(p.input.up, p.input.down)
        vx == Velocity(dx, dy)
        vy == Velocity(dy, dx)
    IN [p EXCEPT
          !.x = Clamp(PLAYER_RADIUS, WORLD_WIDTH - PLAYER_RADIUS, p.x + Travel(vx, dt)),
          !.y = Clamp(PLAYER_RADIUS, WORLD_HEIGHT - PLAYER_RADIUS, p.y + Travel(vy, dt)),
          !.angle = Facing(p)]

\* lines 118-145: one iteration of the players loop
UpdatePlayer(p, dt, t, pos) ==
    IF ~p.alive
    THEN IF RespawnDue(p, t) THEN Respawn(p, pos) ELSE p
    ELSE Move(p, dt)

\* lines 150-151
MoveBullet(b, dt) ==
    [b EXCEPT !.x = b.x + Travel(b.vx, dt), !.y = b.y + Travel(b.vy, dt)]

\* line 154
Expired(b, t) == t - b.born > BULLET_LIFETIME

\* the bounds test without its left edge
OutOfBounds_noLeft(b) ==
    \/ b.x > WORLD_WIDTH + BOUNDS_MARGIN
    \/ b.y < -BOUNDS_MARGIN
    \/ b.y > WORLD_HEIGHT + BOUNDS_MARGIN

\* line 160
OutOfBounds(b) ==
    \/ b.x < -BOUNDS_MARGIN
    \/ b.x > WORLD_WIDTH + BOUNDS_MARGIN
    \/ b.y < -BOUNDS_MARGIN
    \/ b.y > WORLD_HEIGHT + BOUNDS_MARGIN

\* the scan without its test for dead players
Eligible_dead(p, pid, b) == pid # b.ownerId

\* line 168, negated
Eligible(p, pid, b) == p.alive /\ pid # b.ownerId

\* the overlap test with the player's diameter in place of its radius
Overlaps_wide(p, b) ==
    LET dx == p.x - b.x
        dy == p.y - b.y
        minDist == 2 * PLAYER_RADIUS + BULLET_RADIUS
    IN dx * dx + dy * dy <= minDist * minDist

\* lines 169-173
Overlaps(p, b) ==
    LET dx == p.x - b.x
        dy == p.y - b.y
        minDist == PLAYER_RADIUS + BULLET_RADIUS
    IN dx * dx + dy * dy <= minDist * minDist

\* the scan that gives up when the bullet's owner is no longer a player
HitPlayers_ownerPresent(ps, b) ==
    LET cand == {pid \in DOMAIN ps : Eligible(ps[pid], pid, b) /\ Overlaps(ps[pid], b)}
    IN IF b.ownerId \notin DOMAIN ps \/ cand = {} THEN {} ELSE {MinOf(cand)}

\* the scan without its break: every overlapping player is damaged
HitPlayers_noBreak(ps, b) ==
    {pid \in DOMAIN ps : Eligible(ps[pid], pid, b) /\ Overlaps(ps[pid], b)}

\* lines 166-183: the players the scan damages.  Keys are visited in
\* insertion order, which is ascending socket number, and the scan stops at
\* the first hit.
HitPlayers(ps, b) ==
    LET cand == {pid \in DOMAIN ps : Eligible(ps[pid], pid, b) /\ Overlaps(ps[pid], b)}
    IN IF cand = {} THEN {} ELSE {MinOf(cand)}

\* the hit with the death test written as health < 0
Damage_aliveAtZero(p, t) ==
    LET h == p.health - HIT_DAMAGE IN
    IF h < 0
    THEN [p EXCEPT !.health = h, !.alive = FALSE, !.respawnAt = t + RESPAWN_TIME]
    ELSE [p EXCEPT !.health = h]

\* the death that forgets line 178
Damage_noDeadline(p, t) ==
    LET h == p.health - HIT_DAMAGE IN
    IF h <= 0
    THEN [p EXCEPT !.health = h, !.alive = FALSE]
    ELSE [p EXCEPT !.health = h]

\* lines 175-179
Damage(p, t) ==
    LET h == p.health - HIT_DAMAGE IN
    IF h <= 0
    THEN [p EXCEPT !.health = h, !.alive = FALSE, !.respawnAt = t + RESPAWN_TIME]
    ELSE [p EXCEPT !.health = h]

\* the iteration with the collision scan moved ahead of the lifetime and
\* bounds tests
UpdateBullet_hitFirst(st, id, dt, t) ==
    LET b == MoveBullet(st.bs[id], dt)
        moved == [st EXCEPT !.bs[id] = b]
        gone == [st EXCEPT !.bs = Del(st.bs, id),
                           !.gone = st.gone \cup {[bullet |-> id] @@ b}]
        vs == HitPlayers(st.ps, b)
    IN IF vs # {}
       THEN [ps |-> [pid \in DOMAIN st.ps |->
                       IF pid \in vs THEN Damage(st.ps[pid], t) ELSE st.ps[pid]],
             bs |-> Del(st.bs, id),
             hits |-> st.hits \cup {[bullet |-> id, owner |-> b.ownerId, victim |-> pid,
                                      x |-> b.x, y |-> b.y] : pid \in vs},
             taken |-> [pid \in DOMAIN st.taken |->
                          IF pid \in vs THEN st.taken[pid] + 1 ELSE st.taken[pid]],
             gone |-> st.gone]
       ELSE IF Expired(b, t) \/ OutOfBounds(b) THEN gone
       ELSE moved

\* lines 149-183: one iteration of the bullets loop.
\* st = [ps: players, bs: bullets, hits: hits so far, taken: hit counters,
\* gone: bullets removed for age or bounds so far];
\* a hit records the bullet, its owner, its position and the victim
UpdateBullet(st, id, dt, t) ==
    LET b == MoveBullet(st.bs[id], dt)
        moved == [st EXCEPT !.bs[id] = b]
        gone == [st EXCEPT !.bs = Del(st.bs, id),
                           !.gone = st.gone \cup {[bullet |-> id] @@ b}]
    IN IF Expired(b, t) THEN gone
       ELSE IF OutOfBounds(b) THEN gone
       ELSE LET vs == HitPlayers(st.ps, b) IN
            IF vs = {} THEN moved
            ELSE [ps |-> [pid \in DOMAIN st.ps |->
                            IF pid \in vs THEN Damage(st.ps[pid], t) ELSE st.ps[pid]],
                  bs |-> Del(st.bs, id),
                  hits |-> st.hits \cup {[bullet |-> id, owner |-> b.ownerId, victim |-> pid,
                                           x |-> b.x, y |-> b.y] : pid \in vs},
                  taken |-> [pid \in DOMAIN st.taken |->
                               IF pid \in vs THEN st.taken[pid] + 1 ELSE st.taken[pid]],
                  gone |-> st.gone]

\* line 148: bullet keys are integer-like, so for-in visits them in ascending
\* order.  The state after one iteration is bound to a name before the next
\* iteration starts from it, so that it is computed once.
RECURSIVE UpdateBullets(_, _, _, _)
UpdateBullets(st, ids, dt, t) ==
    IF ids = {} THEN st
    ELSE LET id == MinOf(ids) IN
         CHOOSE out \in {UpdateBullets(next, ids \ {id}, dt, t) :
                            next \in {UpdateBullet(st, id, dt, t)}} : TRUE

Tick ==
    /\ ~crashed
    /\ lastTick' = now
    /\ snapshot' = NoSnapshot
    /\ UNCHANGED <<nextBulletId, now, connected, crashed, env>>
    /\ LET dt == Elapsed(now, lastTick)
           due == {s \in DOMAIN players :
                     ~players[s].alive /\ RespawnDue(players[s], now)}
       IN \E pos \in [due -> env.respawnX \X env.spawnY] :
            LET ps1 == [s \in DOMAIN players |->
                          UpdatePlayer(players[s], dt, now,
                                       IF s \in due THEN pos[s] ELSE <<0, 0>>)]
                taken1 == [s \in DOMAIN players |->
                             IF ~players[s].alive /\ ps1[s].alive THEN 0
                             ELSE hitsTaken[s]]
            IN \E st \in {UpdateBullets([ps |-> ps1, bs |-> bullets, hits |-> {},
                                          taken |-> taken1, gone |-> {}],
                                         DOMAIN bullets, dt, now)} :
               /\ players' = st.ps
               /\ bullets' = st.bs
               /\ tickHits' = st.hits
               /\ tickGone' = st.gone
               /\ mono' = [mono EXCEPT !.died =
                             [s \in DOMAIN players |->
                                IF ps1[s].alive /\ ~st.ps[s].alive THEN mono.t
                                ELSE mono.died[s]]]
               /\ tickRespawns' = {s \in DOMAIN players : ~players[s].alive /\ ps1[s].alive}
               /\ hitsTaken' = st.taken

----------------------------------------------------------------------------
(* The broadcast: setInterval(..., 1000 / BROADCAST_RATE) *)

\* the listing that stops one entry short
RECURSIVE Values_dropLast(_, _)
Values_dropLast(f, ids) ==
    IF Cardinality(ids) <= 1 THEN <<>>
    ELSE LET id == MinOf(ids) IN
         <<[id |-> id] @@ f[id]>> \o Values_dropLast(f, ids \ {id})

\* Object.values: the values in key order
RECURSIVE Values(_, _)
Values(f, ids) ==
    IF ids = {} THEN <<>>
    ELSE LET id == MinOf(ids) IN <<[id |-> id] @@ f[id]>> \o Values(f, ids \ {id})

PlayerView(p) ==
    [id |-> p.id, x |-> p.x, y |-> p.y, angle |-> p.angle,
     health |-> p.health, alive |-> p.alive]

BulletView(b) == [id |-> b.id, x |-> b.x, y |-> b.y]

MakeSnapshot(t) ==
    LET ps == Values(players, DOMAIN players)
        bs == Values(bullets, DOMAIN bullets)
    IN [time |-> t,
        players |-> [i \in 1..Len(ps) |-> PlayerView(ps[i])],
        bullets |-> [i \in 1..Len(bs) |-> BulletView(bs[i])]]

Broadcast ==
    /\ ~crashed
    /\ snapshot' = MakeSnapshot(now)
    /\ tickHits' = {}
    /\ tickRespawns' = {}
    /\ tickGone' = {}
    /\ UNCHANGED <<players, bullets, nextBulletId, lastTick, now, connected,
                   crashed, env, hitsTaken, mono>>

----------------------------------------------------------------------------

Next ==
    \/ /\ connected < env.sockets
       /\ \E x \in env.spawnX[connected + 1] : \E y \in env.spawnY : Connect(x, y)
    \/ \E s \in SocketIds : env.disconnects /\ Disconnect(s)
    \/ \E s \in SocketIds : \E input \in Payloads :
         input.name \in env.payloads /\ Input(s, input)
    \/ \E t \in ClockReadings : Advance(t)
    \/ Tick
    \/ env.broadcasts /\ Broadcast

Spec == Init /\ [][Next]_vars

\* the timers keep firing: setInterval runs the game loop again and again,
\* and the clock moves on
InitLive ==
    /\ players = <<>>
    /\ bullets = <<>>
    /\ nextBulletId = 1
    /\ lastTick = StartTime
    /\ now = StartTime
    /\ connected = 0
    /\ crashed = FALSE
    /\ env = LiveEnv
    /\ tickHits = {}
    /\ tickRespawns = {}
    /\ hitsTaken = <<>>
    /\ snapshot = NoSnapshot
    /\ tickGone = {}
    /\ mono = [t |-> StartTime, shot |-> <<>>, died |-> <<>>]

NextLive ==
    \/ /\ connected < env.sockets
       /\ \E x \in env.spawnX[connected + 1] : \E y \in env.spawnY : Connect(x, y)
    \/ \E s \in SocketIds : \E input \in Payloads :
         input.name \in env.payloads /\ Input(s, input)
    \/ \E t \in ClockReadings : Advance(t)
    \/ Tick

\* a pass of the game loop that finds a respawn due
RespawnPass ==
    /\ \E s \in DOMAIN players : ~players[s].alive /\ RespawnDue(players[s], now)
    /\ Tick

\* setInterval fires the game loop for as long as the process lives, so a
\* pass that stays possible is eventually run (fairness is stated for the
\* passes that find a respawn due, which the fairness of every pass implies),
\* and the clock does not stand still
SpecLive ==
    /\ InitLive
    /\ [][NextLive]_vars
    /\ WF_vars(RespawnPass)
    /\ WF_vars(\E t \in ClockReadings : Advance(t))

----------------------------------------------------------------------------
(* The same server on a host whose system clock is adjusted while it runs *)

InitSkew ==
    /\ players = <<>>
    /\ bullets = <<>>
    /\ nextBulletId = 1
    /\ lastTick = StartTime
    /\ now = StartTime
    /\ connected = 0
    /\ crashed = FALSE
    /\ env = SkewEnv
    /\ tickHits = {}
    /\ tickRespawns = {}
    /\ hitsTaken = <<>>
    /\ snapshot = NoSnapshot
    /\ tickGone = {}
    /\ mono = [t |-> StartTime, shot |-> <<>>, died |-> <<>>]

NextSkew ==
    \/ /\ connected < env.sockets
       /\ \E x \in env.spawnX[connected + 1] : \E y \in env.spawnY : Connect(x, y)
    \/ \E s \in SocketIds : \E input \in Payloads :
         input.name \in env.payloads /\ Input(s, input)
    \/ \E t \in ClockReadings : Advance(t)
    \/ \E t \in ClockReadings : SetClock(t)
    \/ Tick

SpecSkew == InitSkew /\ [][NextSkew]_vars

----------------------------------------------------------------------------
(* Properties *)

\* C1: an alive player has 0 <= health <= max health, health 0 occurs only
\* for a player that is not alive, and a dead player has health <= 0 (it
\* keeps it until the pass that respawns it).
C1_HealthRange ==
    \A s \in DOMAIN players :
        LET p == players[s] IN
        /\ p.alive => (0 <= p.health /\ p.health <= PLAYER_MAX_HEALTH)
        /\ p.health = 0 => ~p.alive
        /\ ~p.alive => p.health <= 0

\* a player was killed and has just been respawned
C1_Witness ==
    \E s \in tickRespawns : players[s].alive /\ players[s].health > 0

\* C2: an alive player's position lies within
\* [radius, width - radius] x [radius, height - radius].
C2_InWorld ==
    \A s \in DOMAIN players :
        LET p == players[s] IN
        p.alive =>
            /\ PLAYER_RADIUS <= p.x /\ p.x <= WORLD_WIDTH - PLAYER_RADIUS
            /\ PLAYER_RADIUS <= p.y /\ p.y <= WORLD_HEIGHT - PLAYER_RADIUS

\* a player walked into the left wall and was clamped
C2_Witness ==
    \E s \in DOMAIN players :
        players[s].alive /\ players[s].x = PLAYER_RADIUS /\ players[s].input.left

\* the step is the input handler of socket s, which owns a player,
\* processing a message that a client of this run sends and that it can read
InputStep(s, input) ==
    /\ s \in DOMAIN players
    /\ input.name \in env.payloads
    /\ ~Throws(input)
    /\ Input(s, input)

\* the step creates exactly one bullet, owned by s and born at this instant
SpawnsBullet(s) ==
    /\ nextBulletId \notin DOMAIN bullets
    /\ DOMAIN bullets' = DOMAIN bullets \cup {nextBulletId}
    /\ \A id \in DOMAIN bullets : bullets'[id] = bullets[id]
    /\ bullets'[nextBulletId].ownerId = s
    /\ bullets'[nextBulletId].born = now
    /\ nextBulletId' = nextBulletId + 1

\* the player has an accepted shot less than the cooldown ago
CoolingDown(p) == p.lastShot # 0 /\ now - p.lastShot < SHOOT_COOLDOWN

\* C3 as stated: a shoot request less than 200 ms after the player's previous
\* accepted shot never spawns a bullet, and any other shoot request spawns
\* one in the handler itself.
C3_AsStated ==
    [][\A s \in SocketIds : \A input \in Payloads :
          InputStep(s, input) =>
              /\ CoolingDown(players[s]) => bullets' = bullets
              /\ (input.shoot = JTrue /\ ~CoolingDown(players[s])) => SpawnsBullet(s)]_vars

\* C3, amended: a shoot request less than 200 ms after the player's previous
\* accepted shot never spawns a bullet; a shoot request at or after the
\* cooldown spawns one, in the handler itself, when the player is alive.
C3_Cooldown ==
    [][\A s \in SocketIds : \A input \in Payloads :
          InputStep(s, input) =>
              /\ CoolingDown(players[s]) => bullets' = bullets
              /\ (input.shoot = JTrue /\ ~CoolingDown(players[s]) /\ players[s].alive)
                    => SpawnsBullet(s)]_vars

\* a player's second shot was accepted exactly one cooldown after its first
C3_Witness ==
    \E a, b \in DOMAIN bullets :
        /\ bullets[a].ownerId = bullets[b].ownerId
        /\ bullets[b].born = bullets[a].born + SHOOT_COOLDOWN
        /\ bullets[b].ownerId \in DOMAIN players
        /\ players[bullets[b].ownerId].lastShot = bullets[b].born

----------------------------------------------------------------------------

\* the bullet has left the world by more than the margin
LeftWorld(b) ==
    \/ b.x < -BOUNDS_MARGIN \/ b.x > WORLD_WIDTH + BOUNDS_MARGIN
    \/ b.y < -BOUNDS_MARGIN \/ b.y > WORLD_HEIGHT + BOUNDS_MARGIN

\* the bullet touches a player that is alive and did not fire it
TouchesTarget(ps, b) ==
    \E pid \in DOMAIN ps :
        /\ ps[pid].alive
        /\ pid # b.ownerId
        /\ (ps[pid].x - b.x) * (ps[pid].x - b.x) + (ps[pid].y - b.y) * (ps[pid].y - b.y)
             <= (PLAYER_RADIUS + BULLET_RADIUS) * (PLAYER_RADIUS + BULLET_RADIUS)

\* C4 as stated: no bullet is in the store at the end of a tick if, after
\* being moved, its age is >= 2000 ms, or it is more than 50 outside the
\* world, or it overlaps an eligible player.
C4_AsStated ==
    [][Tick => \A id \in DOMAIN bullets' :
          /\ ~(now - bullets'[id].born >= BULLET_LIFETIME)
          /\ ~LeftWorld(bullets'[id])
          /\ ~TouchesTarget(players', bullets'[id])]_vars

\* C4, amended: no bullet is in the store at the end of a tick if, after
\* being moved, its age is > 2000 ms (a bullet of age exactly 2000 ms stays),
\* or it is more than 50 outside the world, or it overlaps an eligible player.
C4_Removal ==
    [][Tick => \A id \in DOMAIN bullets' :
          /\ ~(now - bullets'[id].born > BULLET_LIFETIME)
          /\ ~LeftWorld(bullets'[id])
          /\ ~TouchesTarget(players', bullets'[id])]_vars

\* the only client there ever was has fired, a tick has run since, and a
\* bullet is gone: it left the world or outlived its lifetime
C4_Witness ==
    /\ connected = 1
    /\ lastTick = now
    /\ \E id \in 1..(nextBulletId - 1) : id \notin DOMAIN bullets

\* the hits of the pass that has just run, by victim
HitsOn(hits, s) == {h \in hits : h.victim = s}

\* C5: a bullet never takes health from the player that fired it, and takes
\* health from at most one player, once: a tick lowers a player's health by
\* 25 for each bullet that hit it, every such bullet was fired by another
\* player, hit nobody else and is gone after the tick; no other operation
\* lowers health, and a bullet id is never used again.
C5_OneVictim ==
    [][/\ Tick =>
            /\ \A h \in tickHits' :
                  /\ h.victim # h.owner
                  /\ h.bullet \in DOMAIN bullets
                  /\ bullets[h.bullet].ownerId = h.owner
                  /\ h.bullet \notin DOMAIN bullets'
                  /\ \A g \in tickHits' : g.bullet = h.bullet => g = h
            /\ \A s \in DOMAIN players :
                  LET before == IF s \in tickRespawns' THEN PLAYER_MAX_HEALTH
                                ELSE players[s].health
                  IN players'[s].health =
                         before - 25 * Cardinality(HitsOn(tickHits', s))
       /\ ~Tick => \A s \in DOMAIN players \cap DOMAIN players' :
                       players'[s].health = players[s].health
       /\ \A id \in DOMAIN bullets' :
             id \in DOMAIN bullets \/ (id = nextBulletId /\ nextBulletId' > id)
       /\ \A id \in DOMAIN bullets : id < nextBulletId]_vars

\* a bullet hit one player while touching a second player that was alive
\* and had not fired it
C5_Witness ==
    \E h \in tickHits : \E s \in DOMAIN players :
        /\ s # h.victim
        /\ s # h.owner
        /\ players[s].alive
        /\ (players[s].x - h.x) * (players[s].x - h.x)
             + (players[s].y - h.y) * (players[s].y - h.y)
             <= (PLAYER_RADIUS + BULLET_RADIUS) * (PLAYER_RADIUS + BULLET_RADIUS)

\* C6: a disconnect for a socket that has no player leaves the players and
\* the bullets as they are and raises no error; a disconnect for a socket
\* that has a player removes that player and nothing else.
C6_Disconnect ==
    [][\A s \in SocketIds : Disconnect(s) =>
          /\ bullets' = bullets
          /\ crashed' = FALSE
          /\ IF s \in DOMAIN players
             THEN /\ DOMAIN players' = DOMAIN players \ {s}
                  /\ \A o \in DOMAIN players' : players'[o] = players[o]
             ELSE players' = players]_vars

\* a player that had fired has left; its bullet and another player remain
C6_Witness ==
    \E s \in 1..connected :
        /\ s \notin DOMAIN players
        /\ DOMAIN players # {}
        /\ \E id \in DOMAIN bullets : bullets[id].ownerId = s

\* the message carries a usable value for the direction field
HasBoolean(j) == j.t = "boolean"

\* C7: an input message that omits up, down, left, right or the aim angle,
\* or carries a value of the wrong type for it, leaves the value staged for
\* that field as it was.
C7_StagedKept ==
    [][\A s \in SocketIds : \A input \in Payloads :
          InputStep(s, input) =>
              /\ ~HasBoolean(input.up) => players'[s].input.up = players[s].input.up
              /\ ~HasBoolean(input.down) => players'[s].input.down = players[s].input.down
              /\ ~HasBoolean(input.left) => players'[s].input.left = players[s].input.left
              /\ ~HasBoolean(input.right) =>
                    players'[s].input.right = players[s].input.right
              /\ input.mouseAngle.t # "number" =>
                    players'[s].input.mouseAngle = players[s].input.mouseAngle]_vars

\* C8: processing an input message never raises an exception, whatever the
\* payload and whoever sent it.
C8_NeverThrows == crashed = FALSE

\* health as the hits since the player was created or respawned account for it
C9_Health ==
    \A s \in DOMAIN players : LET p == players[s] IN
        /\ p.alive => p.health = PLAYER_MAX_HEALTH - 25 * hitsTaken[s]
        /\ hitsTaken[s] = 2 => (p.alive /\ p.health = 50)
        /\ hitsTaken[s] >= 4 => (~p.alive /\ p.health <= 0 /\ hitsTaken[s] = 4)

\* C9: every hit takes exactly 25: after two hits a player that had 100 is
\* alive with 50; the fourth hit leaves health <= 0, alive false and the
\* respawn deadline at the time of that tick + 2000 ms; a tick before the
\* deadline changes neither the health nor the deadline of a dead player,
\* whatever bullets overlap it.
C9_Hits ==
    [][/\ C9_Health'
       /\ Tick => \A s \in DOMAIN players :
             /\ (players[s].alive /\ ~players'[s].alive) =>
                   /\ hitsTaken'[s] = 4
                   /\ players'[s].respawnAt = now + 2000
             /\ (~players[s].alive /\ now < players[s].respawnAt) =>
                   /\ players'[s].health = players[s].health
                   /\ players'[s].respawnAt = players[s].respawnAt
                   /\ ~players'[s].alive]_vars

\* after its fourth hit a player is dead, its deadline is ahead, and a bullet
\* fired by another player has been moved onto it and is still in the store
C9_Witness ==
    \E s \in DOMAIN players : \E id \in DOMAIN bullets :
        /\ ~players[s].alive
        /\ hitsTaken[s] = 4
        /\ now < players[s].respawnAt
        /\ lastTick = now
        /\ bullets[id].ownerId # s
        /\ bullets[id].x = players[s].x
        /\ bullets[id].y = players[s].y

\* a tick before the deadline leaves a dead player as it is
StaysDead(s) ==
    (~players[s].alive /\ now < players[s].respawnAt) =>
        /\ ~players'[s].alive
        /\ players'[s].x = players[s].x
        /\ players'[s].y = players[s].y
        /\ players'[s].angle = players[s].angle
        /\ players'[s].health = players[s].health

\* the position is one the spawn formula can yield
FreshPosition(p) ==
    /\ 100 <= p.x /\ p.x < WORLD_WIDTH - 100
    /\ 100 <= p.y /\ p.y < WORLD_HEIGHT - 100

\* C10 as stated: a tick before the deadline never makes a dead player alive
\* and leaves its position, angle and health unchanged; after the first tick
\* at or past the deadline the player is alive with health 100, no deadline,
\* and a fresh position inside the inset world.
C10_AsStated ==
    [][Tick => \A s \in DOMAIN players :
          /\ StaysDead(s)
          /\ (~players[s].alive /\ now >= players[s].respawnAt) =>
                /\ players'[s].alive
                /\ players'[s].health = PLAYER_MAX_HEALTH
                /\ players'[s].respawnAt = 0
                /\ FreshPosition(players'[s])]_vars

\* C10, amended: a tick before the deadline never makes a dead player alive
\* and leaves its position, angle and health unchanged; the first tick at or
\* past the deadline gives the player a fresh position inside the inset
\* world and health 100 less 25 for every bullet that hits it later in that
\* same tick; it is then alive with no deadline, unless those hits were
\* four, when it is dead again with the deadline at that tick + 2000 ms.
C10_Respawn ==
    [][Tick => \A s \in DOMAIN players :
          /\ StaysDead(s)
          /\ (~players[s].alive /\ now >= players[s].respawnAt) =>
                LET n == Cardinality(HitsOn(tickHits', s)) IN
                /\ FreshPosition(players'[s])
                /\ players'[s].health = PLAYER_MAX_HEALTH - 25 * n
                /\ IF n < 4
                   THEN players'[s].alive /\ players'[s].respawnAt = 0
                   ELSE /\ ~players'[s].alive
                        /\ players'[s].respawnAt = now + RESPAWN_TIME]_vars

\* a player respawned and was hit by a bullet in the same tick
C10_Witness ==
    \E s \in tickRespawns :
        /\ players[s].alive
        /\ players[s].health = PLAYER_MAX_HEALTH - 25
        /\ players[s].respawnAt = 0

\* C11: the respawn deadline is set only while the player is not alive, and
\* it is cleared in exactly the step in which alive goes from false to true.
C11_Deadline ==
    [][/\ \A s \in DOMAIN players' :
             players'[s].alive => players'[s].respawnAt = 0
       /\ \A s \in DOMAIN players \cap DOMAIN players' :
             (players[s].respawnAt # 0 /\ players'[s].respawnAt = 0)
                <=> (~players[s].alive /\ players'[s].alive)]_vars

\* a tick has just brought a dead player back: it is alive, at full health,
\* and its deadline is cleared
C11_Witness ==
    \E s \in tickRespawns :
        /\ players[s].alive
        /\ players[s].health = PLAYER_MAX_HEALTH
        /\ players[s].respawnAt = 0
        /\ lastTick = now

\* C12: a broadcast pass leaves the players, the bullets and the bullet id
\* counter unchanged, and its snapshot has exactly one entry for every
\* player and every bullet in the store, carrying the current id, position,
\* angle, health and alive flag (id and position for a bullet).
C12_Broadcast ==
    [][Broadcast =>
          /\ players' = players
          /\ bullets' = bullets
          /\ nextBulletId' = nextBulletId
          /\ Len(snapshot'.players) = Cardinality(DOMAIN players)
          /\ Len(snapshot'.bullets) = Cardinality(DOMAIN bullets)
          /\ \A s \in DOMAIN players : \E i \in 1..Len(snapshot'.players) :
                snapshot'.players[i] =
                    [id |-> s, x |-> players[s].x, y |-> players[s].y,
                     angle |-> players[s].angle, health |-> players[s].health,
                     alive |-> players[s].alive]
          /\ \A id \in DOMAIN bullets : \E i \in 1..Len(snapshot'.bullets) :
                snapshot'.bullets[i] =
                    [id |-> id, x |-> bullets[id].x, y |-> bullets[id].y]]_vars

\* a snapshot has been emitted that lists two players, one of them hurt, and
\* a bullet
C12_Witness ==
    /\ Len(snapshot.players) >= 2
    /\ Len(snapshot.bullets) >= 1
    /\ \E i \in 1..Len(snapshot.players) : snapshot.players[i].health < PLAYER_MAX_HEALTH

\* C13: after each tick, the facing angle of a player the tick has moved is
\* the aim angle last staged for it, whatever its value.  A player for which
\* no aim was ever staged still has mouseAngle = 0 and angle = 0, its values
\* at creation, so the rule "keep the angle when no aim was ever staged"
\* asks the same of it.
C13_Facing ==
    [][Tick => \A s \in DOMAIN players :
          players[s].alive => players'[s].angle = players[s].input.mouseAngle]_vars

\* C14: an input whose shoot field is absent or is anything but the boolean
\* true never creates a bullet and never updates the player's lastShot.
C14_ExplicitTrue ==
    [][\A s \in SocketIds : \A input \in Payloads :
          (InputStep(s, input) /\ input.shoot # JTrue) =>
              /\ bullets' = bullets
              /\ nextBulletId' = nextBulletId
              /\ players'[s].lastShot = players[s].lastShot]_vars

\* C15: a shoot request from a player that is dead, or whose cooldown has
\* not elapsed, leaves the player's lastShot, the bullets and nextBulletId
\* unchanged and raises no error.
C15_Dropped ==
    [][\A s \in SocketIds : \A input \in Payloads :
          (/\ InputStep(s, input)
           /\ Truthy(input.shoot)
           /\ (~players[s].alive \/ now - players[s].lastShot < SHOOT_COOLDOWN)) =>
              /\ players'[s].lastShot = players[s].lastShot
              /\ bullets' = bullets
              /\ nextBulletId' = nextBulletId
              /\ crashed' = FALSE]_vars

\* a player fired along angle 0 and, within the cooldown, sent a shoot request
\* that also aims along angle 1 (no other message stages that angle): the
\* aim is staged, and the first bullet is still the only one ever created
C15_Witness ==
    \E s \in DOMAIN players :
        /\ players[s].input.mouseAngle = 1
        /\ nextBulletId = 2
        /\ 1 \in DOMAIN bullets
        /\ bullets[1].ownerId = s
        /\ bullets[1].vy = 0
        /\ players[s].lastShot = bullets[1].born
        /\ now - players[s].lastShot < SHOOT_COOLDOWN

\* C16: cooldown and respawn delay follow the time that has really passed,
\* whatever is done to the clock the server reads: a shoot request of an
\* alive player that has fired before is accepted exactly when 200 ms have
\* really passed since its last accepted shot, a dead player is respawned by
\* a tick exactly when 2000 ms have really passed since its death, and the
\* elapsed time a tick uses is never negative.
C16_Monotonic ==
    [][/\ \A s \in SocketIds : \A input \in Payloads :
             (/\ InputStep(s, input)
              /\ input.shoot = JTrue
              /\ players[s].alive
              /\ players[s].lastShot # 0) =>
                 (SpawnsBullet(s) <=> mono.t - mono.shot[s] >= SHOOT_COOLDOWN)
       /\ Tick =>
             /\ now - lastTick >= 0
             /\ \A s \in DOMAIN players : ~players[s].alive =>
                   (s \in tickRespawns' <=> mono.t - mono.died[s] >= RESPAWN_TIME)]_vars

\* the point (x, y) is within reach (player radius + bullet radius) of p
Within(p, x, y) ==
    (p.x - x) * (p.x - x) + (p.y - y) * (p.y - y)
        <= (PLAYER_RADIUS + BULLET_RADIUS) * (PLAYER_RADIUS + BULLET_RADIUS)

\* C17: a tick changes the health or the alive flag of an alive player only
\* if some bullet that the player did not fire lies, after the moves of the
\* tick, within player radius + bullet radius of the player's centre; other
\* players never do, however close they are.
C17_OnlyBullets ==
    [][Tick => \A s \in DOMAIN players :
          (/\ players[s].alive
           /\ \/ players'[s].health # players[s].health
              \/ players'[s].alive # players[s].alive) =>
              \E id \in DOMAIN bullets :
                  /\ bullets[id].ownerId # s
                  /\ Within(players'[s],
                            bullets[id].x + Travel(bullets[id].vx, Elapsed(now, lastTick)),
                            bullets[id].y + Travel(bullets[id].vy, Elapsed(now, lastTick)))]_vars

\* two players whose circles overlap are both unhurt after a tick that moved
\* a bullet which is in reach of neither
C17_Witness ==
    \E s, o \in DOMAIN players : \E id \in DOMAIN bullets :
        /\ s # o
        /\ players[s].alive /\ players[o].alive
        /\ (players[s].x - players[o].x) * (players[s].x - players[o].x)
             + (players[s].y - players[o].y) * (players[s].y - players[o].y)
             <= (2 * PLAYER_RADIUS) * (2 * PLAYER_RADIUS)
        /\ hitsTaken[s] = 0 /\ hitsTaken[o] = 0
        /\ lastTick = now
        /\ bullets[id].born < lastTick
        /\ ~Within(players[s], bullets[id].x, bullets[id].y)
        /\ ~Within(players[o], bullets[id].x, bullets[id].y)

\* the bullet, once moved by this tick, is too old or outside the margin
Spent(b) ==
    LET x == b.x + Travel(b.vx, Elapsed(now, lastTick))
        y == b.y + Travel(b.vy, Elapsed(now, lastTick))
    IN \/ now - b.born > BULLET_LIFETIME
       \/ x < -BOUNDS_MARGIN \/ x > WORLD_WIDTH + BOUNDS_MARGIN
       \/ y < -BOUNDS_MARGIN \/ y > WORLD_HEIGHT + BOUNDS_MARGIN

\* C18: a bullet that, after moving, has exceeded its lifetime or left the
\* bounds margin is removed in that tick and hits nobody, whoever it
\* overlaps; a tick in which every bullet is such a bullet changes no
\* player's health.
C18_ExpiryFirst ==
    [][Tick =>
          /\ \A id \in DOMAIN bullets : Spent(bullets[id]) =>
                /\ id \notin DOMAIN bullets'
                /\ \A h \in tickHits' : h.bullet # id
          /\ (\A id \in DOMAIN bullets : Spent(bullets[id])) =>
                \A s \in DOMAIN players :
                    players[s].alive => players'[s].health = players[s].health]_vars

\* the tick that just ran removed a bullet for its age; that bullet was in
\* reach of an alive player that had not fired it and that is unhurt
C18_Witness ==
    \E g \in tickGone : \E s \in DOMAIN players :
        /\ now - g.born > BULLET_LIFETIME
        /\ s # g.ownerId
        /\ players[s].alive
        /\ hitsTaken[s] = 0
        /\ Within(players[s], g.x, g.y)

\* player s is dead and its deadline falls within the run
DeadWithin(s) ==
    /\ s \in DOMAIN players
    /\ ~players[s].alive
    /\ players[s].respawnAt <= StartTime + Horizon(env)

\* player s has left, or is alive, or has just been respawned by a tick
\* (or the process is gone, and no timer fires any more)
BackOrGone(s) ==
    \/ crashed
    \/ s \notin DOMAIN players
    \/ players[s].alive
    \/ s \in tickRespawns

\* C19: a dead player always has a respawn deadline, and as long as the game
\* loop keeps firing and time keeps advancing, every dead player that stays
\* connected is eventually alive again.
C19_Respawns ==
    /\ [](\A s \in DOMAIN players : ~players[s].alive => players[s].respawnAt # 0)
    /\ \A s \in SocketIds : DeadWithin(s) ~> BackOrGone(s)

\* a player that died is alive again, respawned by the tick that just ran,
\* the respawn delay after its death
C19_Witness ==
    \E s \in tickRespawns :
        /\ players[s].alive
        /\ mono.died[s] > StartTime
        /\ mono.t - mono.died[s] >= RESPAWN_TIME

\* the player that fired bullet b has disconnected
Orphan(b) == b.ownerId \notin DOMAIN players

\* C20: a disconnect removes the player and leaves the bullet store alone.
\* On every later tick a bullet whose owner has left is treated as any
\* other bullet: it is moved; it is removed if it is too old or out of
\* bounds; otherwise, if it touches an alive player, it is removed and that
\* player is hurt; otherwise it stays, moved.  Neither a tick nor a
\* broadcast fails on it, and the broadcast lists it.
C20_Orphans ==
    [][/\ \A s \in DOMAIN players : Disconnect(s) =>
              /\ bullets' = bullets
              /\ DOMAIN players' = DOMAIN players \ {s}
       /\ Tick =>
              /\ ~crashed'
              /\ \A id \in DOMAIN bullets : Orphan(bullets[id]) =>
                    LET moved == MoveBullet(bullets[id], Elapsed(now, lastTick)) IN
                    IF id \in DOMAIN bullets'
                    THEN /\ bullets'[id] = moved
                         /\ ~Spent(bullets[id])
                         /\ ~TouchesTarget(players', moved)
                    ELSE \/ Spent(bullets[id])
                         \/ \E h \in tickHits' :
                               /\ h.bullet = id
                               /\ h.owner = bullets[id].ownerId
                               /\ h.victim \in DOMAIN players
                               /\ Within(players'[h.victim], moved.x, moved.y)
                               /\ players'[h.victim].health
                                     <= PLAYER_MAX_HEALTH - HIT_DAMAGE
       /\ Broadcast =>
              /\ ~crashed'
              /\ \A id \in DOMAIN bullets : Orphan(bullets[id]) =>
                    \E i \in 1..Len(snapshot'.bullets) :
                        snapshot'.bullets[i] =
                            [id |-> id, x |-> bullets[id].x, y |-> bullets[id].y]]_vars

\* the tick that just ran moved a bullet whose owner had disconnected onto
\* an alive player, which it hurt
C20_Witness ==
    \E h \in tickHits :
        /\ h.owner \notin DOMAIN players
        /\ h.victim \in DOMAIN players
        /\ hitsTaken[h.victim] >= 1
        /\ players[h.victim].health <= PLAYER_MAX_HEALTH - HIT_DAMAGE

====
